---- MODULE Spec2Model ----
(***************************************************************************)
(* A model of main.py, the UNHCR Geodata Extractor (a Streamlit script).   *)
(* The script is re-executed from top to bottom on every user interaction; *)
(* one action of the model is one such execution, started by one           *)
(* interaction.  The remote feature service is an external collaborator:   *)
(* every response is chosen nondeterministically among a failure and the   *)
(* bodies the service can send for the request.                            *)
(***************************************************************************)
EXTENDS Integers, Sequences, FiniteSets, TLC

VARIABLES
    country_list,                 \* result of list_countries() in the last run
    country_code,                 \* value of the country selectbox in the last run
    session_state,                \* st.session_state: a dict, with or without 'country_data'
    feature_labels,               \* options of the export multiselect drawn by the last run
    selected_features_to_export,  \* value of the export multiselect in the last run
    files,                        \* the output directory: file name -> document
    ui,                           \* messages the last run showed in the page
    console,                      \* lines the last run printed to the server's stdout
    n_runs,                       \* history: executions of the script so far
    data_country,                 \* history: country code of the run that stored country_data
    run                           \* history: what the last run did

vars == << country_list, country_code, session_state,
           feature_labels, selected_features_to_export, files, ui, console,
           n_runs, data_country, run >>

-----------------------------------------------------------------------------
(* Bounds of the model *)

\* longest features array of a polygon response
MaxPoly == 2
\* longest features array of a point response
MaxPts == 2
\* interactions of the user with the open page, each re-executing the script
MaxRuns == 5

-----------------------------------------------------------------------------
(* Python values *)

EXPORT_FOLDER == "data"

\* Python's None, as a value that can be compared with a dict
None == [py_none |-> TRUE]

\* the empty dict {}
EmptyDict == [k \in {} |-> TRUE]

\* the value of country_code when the selectbox has no option; str(None) is "None"
NoCountry == "None"

\* bool(d) of a dict-or-None
Truthy(d) == d # None /\ DOMAIN d # {}

Has(d, k) == k \in DOMAIN d
Get(d, k, default) == IF k \in DOMAIN d THEN d[k] ELSE default
Put(d, k, v) == [x \in DOMAIN d \cup {k} |-> IF x = k THEN v ELSE d[x]]
Pop(d, k) == [x \in DOMAIN d \ {k} |-> d[x]]

Range(s) == {s[i] : i \in DOMAIN s}

RECURSIVE Join(_, _)
\* sep.join(strs)
Join(strs, sep) ==
    IF Len(strs) = 0 THEN ""
    ELSE IF Len(strs) = 1 THEN strs[1]
    ELSE strs[1] \o sep \o Join(Tail(strs), sep)

-----------------------------------------------------------------------------
(* The remote feature service *)

\* alphabetical order of the country codes the service knows
Alphabet == <<"ABC", "DEF">>
Rank(c) == CHOOSE i \in DOMAIN Alphabet : Alphabet[i] = c

PolygonFeature(code, nm, ring) ==
    [type |-> "Feature",
     geometry |-> [type |-> "Polygon", coordinates |-> ring],
     properties |-> [site_code |-> code, name |-> nm]]

PointFeature(code, nm, xy) ==
    [type |-> "Feature",
     geometry |-> [type |-> "Point", coordinates |-> xy],
     properties |-> [pcode |-> code, gis_name |-> nm]]

\* the rows of the polygon layer (outFields: site_code, name), in the order the
\* service lists them; the site ABC001 is drawn as two polygons
PolygonLayer ==
    << PolygonFeature("DEF001", "Delta", 4),
       PolygonFeature("ABC001", "Alpha", 1),
       PolygonFeature("ABC001", "Alpha", 2),
       PolygonFeature("ABC002", "Beta", 3) >>

\* the rows of the point layer (outFields: pcode, gis_name), each with its iso3
PointLayer ==
    << [iso3 |-> "ABC", feature |-> PointFeature("ABC002", "Beta", <<2, 2>>)],
       [iso3 |-> "ABC", feature |-> PointFeature("ABC003", "Gamma", <<3, 3>>)],
       [iso3 |-> "ABC", feature |-> PointFeature("ABC004", "Zeta", <<4, 4>>)],
       [iso3 |-> "DEF", feature |-> PointFeature("DEF003", "Eta", <<5, 5>>)] >>

\* the rows matching site_code LIKE 'cc%'
PolygonRows(cc) ==
    SelectSeq(PolygonLayer, LAMBDA f : SubSeq(f.properties.site_code, 1, Len(cc)) = cc)

\* the rows matching iso3 = 'cc' AND pcode NOT IN (site_codes)
PointRows(cc, site_codes) ==
    LET rows == SelectSeq(PointLayer,
                          LAMBDA r : /\ r.iso3 = cc
                                     /\ r.feature.properties.pcode \notin Range(site_codes))
    IN  [i \in DOMAIN rows |-> rows[i].feature]

\* the feature arrays the service may send for the matching rows: their first k
\* rows, for every k up to n (a response is capped, and rows come and go while
\* the session lasts)
Arrays(rows, n) == {SubSeq(rows, 1, k) : k \in 0..(IF Len(rows) < n THEN Len(rows) ELSE n)}

Failures == {[status |-> "transport_error", features |-> <<>>],
             [status |-> "http_error", features |-> <<>>]}

Ok(fs) == [status |-> "ok", features |-> fs]

\* session.get raises (a transport failure) or raise_for_status raises (non-2xx)
Failed(resp) == resp.status \in {"transport_error", "http_error"}

\* responses to the query of list_countries
ListResponses ==
    Failures \cup {Ok(PolygonLayer)}

\* responses to the query of query_polygons(cc)
PolygonResponses(cc) == Failures \cup {Ok(fs) : fs \in Arrays(PolygonRows(cc), MaxPoly)}

\* responses to the query of query_points(cc, site_codes)
PointResponses(cc, site_codes) ==
    Failures \cup
    {Ok(fs) : fs \in Arrays(PointRows(cc, site_codes), MaxPts)}

-----------------------------------------------------------------------------
(* Feature Service Client *)

\* st.error(...), st.warning(...), st.success(...): a message shown in the page;
\* by names the code that showed it
Shown(level, text, by) == [level |-> level, text |-> text, by |-> by]

\* print(...): a line on the server's stdout
Printed(text, by) == [text |-> text, by |-> by]

\* one request to the service: the operation that sent it, its filter expression,
\* whether it failed, and what the operation returned for it
Call(op, where, resp, returned) ==
    [op |-> op, where |-> where, failed |-> Failed(resp), returned |-> returned]

\* sorted(list(set(codes)))
Sorted(S) ==
    CHOOSE s \in [1..Cardinality(S) -> S] :
        /\ Range(s) = S
        /\ \A i, j \in DOMAIN s : i < j => Rank(s[i]) < Rank(s[j])

list_countries(resp) ==
    IF Failed(resp)
    THEN [ret |-> <<>>,
          ui |-> {Shown("error", "Failed to fetch data", "list_countries")},
          call |-> Call("list_countries", "1=1", resp, <<>>)]
    ELSE LET site_codes == [i \in DOMAIN resp.features |->
                                SubSeq(resp.features[i].properties.site_code, 1, 3)]
             country_codes == Sorted(Range(site_codes))
         IN  [ret |-> country_codes,
              ui |-> {},
              call |-> Call("list_countries", "1=1", resp, country_codes)]

extract_site_codes(country_data) ==
    LET features == Get(country_data, "features", <<>>)
    IN  [i \in DOMAIN features |-> features[i].properties.site_code]

\* the filter expression of query_points
where_clause(cc, site_codes) ==
    LET site_codes_quoted == [i \in DOMAIN site_codes |-> "'" \o site_codes[i] \o "'"]
    IN  "iso3='" \o cc \o "' AND pcode NOT IN (" \o Join(site_codes_quoted, ",") \o ")"

query_points(cc, site_codes, resp) ==
    LET where == where_clause(cc, site_codes)
    IN  IF Failed(resp)
        THEN [ret |-> EmptyDict,
              ui |-> {},
              console |-> {Printed("Failed to fetch data", "query_points")},
              call |-> Call("query_points", where, resp, EmptyDict)]
        ELSE LET features == [i \in DOMAIN resp.features |->
                                 [resp.features[i] EXCEPT !.properties =
                                     Put(@, "prefixed_gis_name", "POINT_" \o @.gis_name)]]
                 data == [type |-> "FeatureCollection", features |-> features,
                          feature_type |-> "Point"]
             IN  [ret |-> data, ui |-> {}, console |-> {},
                  call |-> Call("query_points", where, resp, data)]

query_polygons(cc, resp) ==
    LET where == "site_code LIKE '" \o cc \o "%'"
    IN  IF Failed(resp)
        THEN [ret |-> EmptyDict,
              ui |-> {Shown("error", "Failed to fetch data", "query_polygons")},
              call |-> Call("query_polygons", where, resp, EmptyDict)]
        ELSE LET data == [type |-> "FeatureCollection", features |-> resp.features,
                          feature_type |-> "Polygon"]
             IN  [ret |-> data, ui |-> {},
                  call |-> Call("query_polygons", where, resp, data)]

-----------------------------------------------------------------------------
(* Geometry Buffering Engine *)

\* mapping(Point(coords).buffer(buffer_size)): a polygon around the point
Buffer(point_coords, buffer_size) ==
    [type |-> "Polygon", coordinates |-> [center |-> point_coords, radius |-> buffer_size]]

\* gen_polygons with a loop that misses the first point
gen_polygons_skips_first(data, buffer_size) ==
    LET features == Tail(Get(data, "features", <<>>))
        buffered_features ==
            [i \in DOMAIN features |->
                [type |-> "Feature",
                 geometry |-> Buffer(features[i].geometry.coordinates, buffer_size),
                 properties |-> features[i].properties]]
    IN  [type |-> "FeatureCollection", features |-> buffered_features]

gen_polygons(data, buffer_size) ==
    LET features == Get(data, "features", <<>>)
        buffered_features ==
            [i \in DOMAIN features |->
                [type |-> "Feature",
                 geometry |-> Buffer(features[i].geometry.coordinates, buffer_size),
                 properties |-> features[i].properties]]
    IN  [type |-> "FeatureCollection", features |-> buffered_features]

-----------------------------------------------------------------------------
(* Country Processing Pipeline *)

\* the tagging loop leaving after its first feature
TaggedFirstOnly(features, tag) ==
    [i \in DOMAIN features |->
        IF i = 1 THEN [features[i] EXCEPT !.properties = Put(@, "feature_type", tag)]
        ELSE features[i]]

\* feature['properties']['feature_type'] = tag, for each feature
Tagged(features, tag) ==
    [i \in DOMAIN features |->
        [features[i] EXCEPT !.properties = Put(@, "feature_type", tag)]]

\* process_country with the service answering polyResp to the polygon query and
\* ptsResp to the point query (if it is sent)
process_country(cc, buffer_size, polyResp, ptsResp) ==
    LET polys == query_polygons(cc, polyResp)
        official_polygons == polys.ret
    IN  IF ~Truthy(official_polygons)
        THEN [ret |-> None,
              ui |-> polys.ui,
              console |-> {Printed("No data found for the country", "process_country")},
              calls |-> <<polys.call>>]
        ELSE
        LET official == [official_polygons EXCEPT
                             !.features = Tagged(@, "Official Polygon")]
            site_codes == extract_site_codes(official)
            points == query_points(cc, site_codes, ptsResp)
            points_data == points.ret
            fetched == {Printed("Successfully fetched " \o ToString(Len(official.features))
                                    \o " official polygons", "process_country")}
        IN  IF ~Truthy(points_data) \/ Len(Get(points_data, "features", <<>>)) = 0
            THEN [ret |-> official,
                  ui |-> polys.ui \cup points.ui,
                  console |-> fetched \cup points.console
                              \cup {Printed("No points data found", "process_country")},
                  calls |-> <<polys.call, points.call>>]
            ELSE
            LET generated_polygons ==
                    [gen_polygons(points_data, buffer_size) EXCEPT
                         !.features = Tagged(@, "Generated Polygon")]
                country_polygons == official.features \o generated_polygons.features
            IN  [ret |-> [type |-> "FeatureCollection", features |-> country_polygons],
                 ui |-> polys.ui \cup points.ui,
                 console |-> fetched \cup points.console
                             \cup {Printed("Successfully fetched "
                                               \o ToString(Len(points_data.features))
                                               \o " points", "process_country")},
                 calls |-> <<polys.call, points.call>>]

-----------------------------------------------------------------------------
(* Interactive Presentation Layer and Export Writer *)

\* the value of the buffer slider, in thousandths of a degree: the slider is left
\* at its default, 0.01
buffer_size_points == 10

\* one entry of feature_labels
FormatLabel(properties) ==
    Get(properties, "site_code", "N/A") \o " - " \o Get(properties, "name", "N/A")
        \o " (" \o Get(properties, "feature_type", "N/A") \o ")"

\* "Fix renaming": pcode -> site_code, gis_name -> name
display_rename(properties) ==
    LET p1 == IF Has(properties, "pcode")
              THEN Put(Pop(properties, "pcode"), "site_code", properties["pcode"])
              ELSE properties
    IN  IF Has(p1, "gis_name")
        THEN Put(Pop(p1, "gis_name"), "name", p1["gis_name"])
        ELSE p1

\* "Revert key names" writing the name under a misspelt key
export_rename_typo(properties) ==
    LET p1 == IF Has(properties, "site_code")
              THEN Put(Pop(properties, "site_code"), "pcode", properties["site_code"])
              ELSE properties
    IN  IF Has(p1, "name")
        THEN Put(Pop(p1, "name"), "gisname", p1["name"])
        ELSE p1

\* "Revert key names": site_code -> pcode, name -> gis_name
export_rename(properties) ==
    LET p1 == IF Has(properties, "site_code")
              THEN Put(Pop(properties, "site_code"), "pcode", properties["site_code"])
              ELSE properties
    IN  IF Has(p1, "name")
        THEN Put(Pop(p1, "name"), "gis_name", p1["name"])
        ELSE p1

\* f"{EXPORT_FOLDER}/{cc}_filtered_polygons.geojson"
filtered_output_file(cc) == EXPORT_FOLDER \o "/" \o cc \o "_filtered_polygons.geojson"

\* the value of the country selectbox: the user's pick if it is an option, else
\* the value it had if that is still an option, else the first option; None
\* when there is no option
selectbox(options, picked) ==
    IF options = <<>> THEN NoCountry
    ELSE IF picked \in Range(options) THEN picked
    ELSE IF country_code \in Range(options) THEN country_code
    ELSE options[1]

\* the value of the export multiselect: the widget keeps its value from run to
\* run while its options stay the same; with other options it is a new widget
\* holding its default, []
multiselect(options, changed, picked) ==
    IF options # feature_labels THEN {}
    ELSE IF changed THEN picked
    ELSE selected_features_to_export

\* the features whose label is selected: zip(feature_options, feature_labels)
\* filtered by "label in selected_features_to_export"
filtered(features, labels, selection) ==
    LET zipped == [i \in DOMAIN features |-> [feature |-> features[i], label |-> labels[i]]]
        kept == SelectSeq(zipped, LAMBDA z : z.label \in selection)
    IN  [i \in DOMAIN kept |-> kept[i].feature]

NoPipeline == [ran |-> FALSE]

\* what the service answered: a failure, or a body with these features
Answer(resp) == [failed |-> Failed(resp), features |-> resp.features]

Pipeline(cc, polyResp, ptsResp) ==
    [ran |-> TRUE, cc |-> cc, polygons |-> Answer(polyResp), points |-> Answer(ptsResp),
     out |-> process_country(cc, buffer_size_points, polyResp, ptsResp)]

\* the export block without its check of the selection
writes_file_always(generate_clicked, selection) == generate_clicked

\* whether the export block writes a file, given the button and the selection
writes_file(generate_clicked, selection) == generate_clicked /\ selection # {}

\* One execution of the script.  trigger is the interaction that started it,
\* lcResp the service's answer to list_countries, cc the value of the country
\* selectbox, proc the run of process_country (NoPipeline if it is not called),
\* picked the labels the user has just chosen in the multiselect.
Script(trigger, lcResp, cc, proc, picked) ==
    LET lc == list_countries(lcResp)
        process_clicked == trigger = "process"
        generate_clicked == trigger = "generate"
        \* "Process Country"
        stored == proc.ran /\ Truthy(proc.out.ret)
        state1 == IF stored
                  THEN Put(session_state, "country_data", proc.out.ret)
                  ELSE session_state
        ui_process ==
            IF ~process_clicked THEN {}
            ELSE IF cc = NoCountry
                 THEN {Shown("warning", "Please select a country", "app")}
                 ELSE {Shown("write", "Processing country: " \o cc, "app")} \cup proc.out.ui
        \* "Display Features and Export Option"
        shown == Has(state1, "country_data")
        features == IF shown THEN state1.country_data.features ELSE <<>>
        labels == [i \in DOMAIN features |-> FormatLabel(features[i].properties)]
        \* next(...) over no feature raises StopIteration: the run ends there
        crashed == shown /\ labels = <<>>
        rendered == shown /\ ~crashed
        renamed == [i \in DOMAIN features |->
                       [features[i] EXCEPT !.properties = display_rename(@)]]
        selection == IF rendered THEN multiselect(labels, trigger = "select", picked) ELSE {}
        \* "Generate GeoJSON file"
        refused == rendered /\ generate_clicked /\ selection = {}
        exporting == rendered /\ writes_file(generate_clicked, selection)
        reverted == [i \in DOMAIN features |->
                        IF labels[i] \in selection
                        THEN [renamed[i] EXCEPT !.properties = export_rename(@)]
                        ELSE renamed[i]]
        final == IF exporting THEN reverted ELSE renamed
        filtered_features == filtered(final, labels, selection)
        filtered_data == [type |-> "FeatureCollection", features |-> filtered_features]
        ui_display ==
            IF crashed THEN {Shown("exception", "StopIteration", "app")}
            ELSE IF exporting
                 THEN {Shown("success", "Exported " \o ToString(Len(filtered_features))
                                 \o " features to " \o filtered_output_file(cc), "app")}
            ELSE IF refused
                 THEN {Shown("error", "No feature selected. Please select at least one feature.",
                             "app")}
            ELSE {}
    IN  /\ country_list' = lc.ret
        /\ country_code' = cc
        /\ session_state' = IF rendered
                             THEN [state1 EXCEPT !.country_data.features = final]
                             ELSE state1
        /\ feature_labels' = labels
        /\ selected_features_to_export' = selection
        /\ files' = IF exporting
                     THEN Put(files, filtered_output_file(cc), filtered_data)
                     ELSE files
        /\ n_runs' = n_runs + 1
        /\ ui' = lc.ui \cup ui_process \cup ui_display
        /\ console' = IF proc.ran THEN proc.out.console ELSE {}
        /\ data_country' = IF stored THEN cc ELSE data_country
        /\ run' = [calls |-> <<lc.call>> \o (IF proc.ran THEN proc.out.calls ELSE <<>>),
                   pipeline |-> proc,
                   rendered |-> rendered,
                   crashed |-> crashed,
                   refused |-> refused,
                   export |-> IF exporting
                              THEN [written |-> TRUE, file |-> filtered_output_file(cc),
                                    data |-> filtered_data]
                              ELSE [written |-> FALSE]]

-----------------------------------------------------------------------------
(* The session *)

\* The user opens the page: the state after the first execution of the script,
\* which draws the sidebar and nothing else ('country_data' is not in the
\* session state yet).
Init ==
    \E lcResp \in ListResponses :
        LET lc == list_countries(lcResp)
        IN  /\ country_list = lc.ret
            /\ country_code = IF lc.ret = <<>> THEN NoCountry ELSE lc.ret[1]
            /\ session_state = EmptyDict
            /\ feature_labels = <<>>
            /\ selected_features_to_export = {}
            /\ files = EmptyDict
            /\ ui = lc.ui
            /\ console = {}
            /\ n_runs = 0
            /\ data_country = NoCountry
            /\ run = [calls |-> <<lc.call>>,
                      pipeline |-> NoPipeline,
                      rendered |-> FALSE,
                      crashed |-> FALSE,
                      refused |-> FALSE,
                      export |-> [written |-> FALSE]]

\* the session may go on
Started == n_runs < MaxRuns

\* the user picks another country in the sidebar
SelectCountry ==
    /\ Started
    /\ \E picked \in Range(country_list) \ {country_code}, lcResp \in ListResponses :
           Script("country", lcResp, selectbox(list_countries(lcResp).ret, picked),
                  NoPipeline, {})

\* the site codes process_country excludes, given the polygon response
Exclusion(cc, polyResp) ==
    extract_site_codes(query_polygons(cc, polyResp).ret)

\* the point query is not sent when query_polygons returns {}
NotSent == [status |-> "not_sent", features |-> <<>>]

\* every run of process_country on cc, one for each way the service can answer
PipelineRuns(cc) ==
    UNION {{Pipeline(cc, polyResp, ptsResp) :
              ptsResp \in IF Failed(polyResp) THEN {NotSent}
                          ELSE PointResponses(cc, Exclusion(cc, polyResp))} :
           polyResp \in PolygonResponses(cc)}

\* the user clicks "Process Country"
ClickProcess ==
    /\ Started
    /\ \E lcResp \in ListResponses :
           LET cc == selectbox(list_countries(lcResp).ret, NoCountry)
           IN  IF cc = NoCountry
               THEN Script("process", lcResp, cc, NoPipeline, {})
               ELSE \E proc \in PipelineRuns(cc) : Script("process", lcResp, cc, proc, {})

\* the user adds a label to the export multiselect, or removes one
SelectFeatures ==
    /\ Started
    /\ run.rendered
    /\ \E label \in Range(feature_labels), lcResp \in ListResponses :
           Script("select", lcResp, selectbox(list_countries(lcResp).ret, NoCountry),
                  NoPipeline,
                  IF label \in selected_features_to_export
                  THEN selected_features_to_export \ {label}
                  ELSE selected_features_to_export \cup {label})

\* the user clicks "Generate GeoJSON file"
ClickGenerate ==
    /\ Started
    /\ run.rendered
    /\ \E lcResp \in ListResponses :
           Script("generate", lcResp, selectbox(list_countries(lcResp).ret, NoCountry),
                  NoPipeline, {})

Next ==
    \/ SelectCountry
    \/ ClickProcess
    \/ SelectFeatures
    \/ ClickGenerate

Spec == Init /\ [][Next]_vars

-----------------------------------------------------------------------------
(* Properties of process_country *)

\* the features of a dict-or-None, [] when it has none
FeaturesOf(d) == IF d = None THEN <<>> ELSE Get(d, "features", <<>>)

\* the requests the last run of process_country sent with query_points
PointCalls ==
    IF run.pipeline.ran
    THEN {run.pipeline.out.calls[i] : i \in {j \in DOMAIN run.pipeline.out.calls :
                                                run.pipeline.out.calls[j].op = "query_points"}}
    ELSE {}

\* C1: if the polygon query returns zero features, process_country returns None
\* and query_points is not called during that run.
C1_NoPolygonsNoResult ==
    (run.pipeline.ran /\ Len(run.pipeline.polygons.features) = 0)
        => (run.pipeline.out.ret = None /\ PointCalls = {})

\* the last run of process_country got n >= 1 official features
GotPolygons ==
    /\ run.pipeline.ran
    /\ ~run.pipeline.polygons.failed
    /\ Len(run.pipeline.polygons.features) >= 1

\* feature i of the result is official feature i, tagged "Official Polygon"
IsOfficial(result, official) ==
    /\ result.type = official.type
    /\ result.geometry = official.geometry
    /\ DOMAIN result.properties = DOMAIN official.properties \cup {"feature_type"}
    /\ result.properties.feature_type = "Official Polygon"
    /\ \A k \in DOMAIN official.properties : result.properties[k] = official.properties[k]

\* the feature is a polygon generated around the point, tagged "Generated Polygon",
\* with the point's other properties
IsGenerated(result, point) ==
    /\ result.geometry.type = "Polygon"
    /\ result.geometry.coordinates.center = point.geometry.coordinates
    /\ Has(result.properties, "feature_type")
    /\ result.properties.feature_type = "Generated Polygon"
    /\ \A k \in DOMAIN point.properties :
           Has(result.properties, k) /\ result.properties[k] = point.properties[k]

\* C2: with N >= 1 official features and M >= 1 points, process_country returns
\* N + M features: the N official ones in order, tagged "Official Polygon", then
\* one polygon per point in point order, tagged "Generated Polygon" and carrying
\* the point's other properties.
C2_MergedCollection ==
    (GotPolygons /\ ~run.pipeline.points.failed /\ Len(run.pipeline.points.features) >= 1)
        => LET official == run.pipeline.polygons.features
               points == run.pipeline.points.features
               merged == FeaturesOf(run.pipeline.out.ret)
           IN  /\ run.pipeline.out.ret # None
               /\ Len(merged) = Len(official) + Len(points)
               /\ \A i \in DOMAIN official : IsOfficial(merged[i], official[i])
               /\ \A j \in DOMAIN points : IsGenerated(merged[Len(official) + j], points[j])

\* C2 witness: a run that merged two official features and two points.
C2_Witness ==
    /\ GotPolygons
    /\ Len(run.pipeline.polygons.features) = 2
    /\ Len(run.pipeline.points.features) = 2
    /\ Len(FeaturesOf(run.pipeline.out.ret)) = 4

\* C3: a failed request of list_countries, query_polygons or query_points is
\* turned into an empty result and a warning shown to the user.
C3_FailureWarnsUser ==
    \A i \in DOMAIN run.calls :
        run.calls[i].failed
            => /\ DOMAIN run.calls[i].returned = {}
               /\ \E m \in ui : m.level \in {"error", "warning"} /\ m.by = run.calls[i].op

\* C4: with official features and an empty point result (no feature, or a failed
\* fetch), process_country returns the official features alone, in order, each
\* tagged "Official Polygon", and not None.
C4_OfficialAlone ==
    (GotPolygons /\ (run.pipeline.points.failed \/ Len(run.pipeline.points.features) = 0))
        => LET official == run.pipeline.polygons.features
               result == FeaturesOf(run.pipeline.out.ret)
           IN  /\ run.pipeline.out.ret # None
               /\ Len(result) = Len(official)
               /\ \A i \in DOMAIN official : IsOfficial(result[i], official[i])

\* C4 witness: two official features are returned alone after the point fetch failed.
C4_Witness ==
    /\ GotPolygons
    /\ run.pipeline.points.failed
    /\ Len(FeaturesOf(run.pipeline.out.ret)) = 2

\* the places where sub occurs in the string s
Occurrences(s, sub) ==
    {i \in 1..(Len(s) - Len(sub) + 1) : SubSeq(s, i, i + Len(sub) - 1) = sub}

\* C8: the filter expression query_points sends never holds the empty list
\* "NOT IN ()", and lists each excluded code exactly once as a quoted literal.
C8_WellFormedFilter ==
    \A call \in PointCalls :
        LET excluded == Range(extract_site_codes(run.pipeline.polygons))
        IN  /\ Occurrences(call.where, "NOT IN ()") = {}
            /\ \A code \in excluded :
                   Cardinality(Occurrences(call.where, "'" \o code \o "'")) = 1

-----------------------------------------------------------------------------
(* Properties of the session *)

\* the features held in the session state, [] when there is none
Held == IF Has(session_state, "country_data") THEN session_state.country_data.features ELSE <<>>

WireForm(properties) ==
    /\ Has(properties, "pcode") /\ Has(properties, "gis_name")
    /\ ~Has(properties, "site_code") /\ ~Has(properties, "name")

\* C5: a written document holds one feature per selected entry and no other,
\* each with the keys pcode and gis_name and without site_code and name.
C5_ExportsSelection ==
    run.export.written
        => LET written == run.export.data.features
           IN  /\ Len(written) = Cardinality(selected_features_to_export)
               /\ \A i \in DOMAIN written : WireForm(written[i].properties)

\* the display name of a key
DisplayKey(k) == IF k = "pcode" THEN "site_code" ELSE IF k = "gis_name" THEN "name" ELSE k

\* the properties under their display names
Displayed(properties) ==
    [k \in {DisplayKey(x) : x \in DOMAIN properties} |->
        properties[CHOOSE x \in DOMAIN properties : DisplayKey(x) = k]]

NoFeatureSelected ==
    \E m \in ui : m.level = "error"
                   /\ m.text = "No feature selected. Please select at least one feature."

HeldProperties ==
    {Held[i].properties : i \in DOMAIN Held}
      \cup UNION {{files[n].features[i].properties : i \in DOMAIN files[n].features} :
                  n \in DOMAIN files}
      \cup (IF run.pipeline.ran
            THEN {run.pipeline.points.features[i].properties :
                      i \in DOMAIN run.pipeline.points.features}
            ELSE {})

\* C7: on a mapping with the keys pcode and gis_name, the display rename followed
\* by the export rename gives the mapping back; each rename leaves a mapping
\* without its source keys as it is.
C7_RenameRoundTrip ==
    \A p \in HeldProperties :
        /\ (Has(p, "pcode") /\ Has(p, "gis_name")) => export_rename(display_rename(p)) = p
        /\ (~Has(p, "pcode") /\ ~Has(p, "gis_name")) => display_rename(p) = p
        /\ (~Has(p, "site_code") /\ ~Has(p, "name")) => export_rename(p) = p

\* C7 witness: a generated polygon, renamed for display and back for the export,
\* is in a written file, and an official polygon is held under its display keys.
C7_Witness ==
    /\ run.export.written
    /\ \E i \in DOMAIN run.export.data.features :
           LET p == run.export.data.features[i].properties
           IN  Has(p, "pcode") /\ Has(p, "gis_name") /\ Has(p, "prefixed_gis_name")
    /\ \E i \in DOMAIN Held : Has(Held[i].properties, "site_code")

\* the site code or the name of a feature, in either key form, "N/A" if it lacks it
ValueOf(properties, display_key, wire_key) ==
    IF Has(properties, display_key) THEN properties[display_key]
    ELSE IF Has(properties, wire_key) THEN properties[wire_key]
    ELSE "N/A"

\* C9: in every render pass each feature is labelled with its site code, its name
\* and its feature-type tag, whichever key form it holds them in.
C9_LabelsNameFeatures ==
    run.rendered
        => /\ Len(feature_labels) = Len(Held)
           /\ \A i \in DOMAIN Held :
                  feature_labels[i] =
                      ValueOf(Held[i].properties, "site_code", "pcode") \o " - "
                          \o ValueOf(Held[i].properties, "name", "gis_name")
                          \o " (" \o Get(Held[i].properties, "feature_type", "N/A") \o ")"

\* C10: a written file is named after the country of the run of process_country
\* that produced the held collection.
C10_FileNamedAfterData ==
    run.export.written
        => run.export.file = "data/" \o data_country \o "_filtered_polygons.geojson"

====
